---- MODULE Spec2Model ----
(***************************************************************************)
(* Model of FrequencyCountSketch (src/src/sketch/frequency_count_sketch.rs),*)
(* a 4-bit count-min sketch with periodic aging.                           *)
(*                                                                         *)
(* Machine words are wider than the integers of the model checker, so an   *)
(* unsigned value of w bits is a tuple of w/16 limbs of 16 bits, least     *)
(* significant limb first: a u64 (and a usize, the target being a 64-bit   *)
(* one) has 4 limbs, a u128 has 8, a u32 has 2.  Shifts, masks, sums and   *)
(* products are computed on the whole word, limb by limb with carries, as  *)
(* the machine computes them.  A table word is such a u64; its j-th 4-bit  *)
(* counter is the j-th hexadecimal digit of the word.  An i32 and a u8 fit *)
(* a model integer.                                                        *)
(***************************************************************************)
EXTENDS Integers, Sequences, FiniteSets, TLC

\* ------------------------------------------------------------------------
\* Bounds of the model
\* ------------------------------------------------------------------------

\* the sketches explored are new(0) .. new(MaxMaximumSize)
MaxMaximumSize == 2

\* the items passed to increment and frequency are 1 .. NumItems
NumItems == 3

\* the items of a stream of distinct items are 6 .. 5 + StreamLen
StreamLen == 96

\* the largest maximum_size a sketch is built with where frequency calls are
\* interleaved with the other calls
MaxReadMaximumSize == 1

\* the free functions are applied to every argument up to MaxArg, and to
\* the arguments around the powers of two and the ends of the type
MaxArg == 70

\* ------------------------------------------------------------------------
\* Fixed-width unsigned arithmetic on tuples of limbs
\* ------------------------------------------------------------------------

\* a function on 1..n as the tuple of its values
Tuple(f) == f \o <<>>

\* limb j of x, zero beyond both ends
LimbAt(x, j) == IF j >= 1 /\ j <= Len(x) THEN x[j] ELSE 0

\* the model integer n >= 0 as an unsigned value of len limbs
ToLimbs(n, len) ==
    Tuple([j \in 1..len |-> IF j = 1 THEN n % 65536
                            ELSE IF j = 2 THEN n \div 65536 ELSE 0])

U32(n) == ToLimbs(n, 2)
U64(n) == ToLimbs(n, 4)

\* a literal given by its hexadecimal digits, most significant first, as a
\* value of len limbs
Lit(hex, len) ==
    LET d(k) == IF k <= Len(hex) THEN hex[Len(hex) + 1 - k] ELSE 0
    IN  Tuple([j \in 1..len |->
            d(4 * j - 3) + 16 * d(4 * j - 2) + 256 * d(4 * j - 1) + 4096 * d(4 * j)])

\* the value of x as a model integer; x must be below 2^31
Val(x) == x[1] + 65536 * LimbAt(x, 2)

\* widening and truncating casts between unsigned widths
Cast(x, len) == Tuple([j \in 1..len |-> LimbAt(x, j)])

BitOf(a, k) == (a \div (2 ^ k)) % 2

\* a & b and a ^ b on 4 bits, tabulated (entry [a + 1][b + 1])
AndTable4 ==
    Tuple([a \in 1..16 |-> Tuple([b \in 1..16 |->
        BitOf(a - 1, 0) * BitOf(b - 1, 0) + 2 * BitOf(a - 1, 1) * BitOf(b - 1, 1)
        + 4 * BitOf(a - 1, 2) * BitOf(b - 1, 2)
        + 8 * BitOf(a - 1, 3) * BitOf(b - 1, 3)])])

XorTable4 ==
    Tuple([a \in 1..16 |-> Tuple([b \in 1..16 |->
        ((BitOf(a - 1, 0) + BitOf(b - 1, 0)) % 2)
        + 2 * ((BitOf(a - 1, 1) + BitOf(b - 1, 1)) % 2)
        + 4 * ((BitOf(a - 1, 2) + BitOf(b - 1, 2)) % 2)
        + 8 * ((BitOf(a - 1, 3) + BitOf(b - 1, 3)) % 2)])])

\* a & b on 8 bits, tabulated
AndTable8 ==
    Tuple([a \in 1..256 |-> Tuple([b \in 1..256 |->
        16 * AndTable4[((a - 1) \div 16) + 1][((b - 1) \div 16) + 1]
        + AndTable4[((a - 1) % 16) + 1][((b - 1) % 16) + 1]])])

And16(a, b) ==
    256 * AndTable8[(a \div 256) + 1][(b \div 256) + 1]
    + AndTable8[(a % 256) + 1][(b % 256) + 1]

Xor16(a, b) ==
    4096 * XorTable4[(a \div 4096) + 1][(b \div 4096) + 1]
    + 256 * XorTable4[((a \div 256) % 16) + 1][((b \div 256) % 16) + 1]
    + 16 * XorTable4[((a \div 16) % 16) + 1][((b \div 16) % 16) + 1]
    + XorTable4[(a % 16) + 1][(b % 16) + 1]

\* x & y, x ^ y on values of the same width
BitAnd(x, y) == Tuple([j \in 1..Len(x) |-> And16(x[j], y[j])])
BitXor(x, y) == Tuple([j \in 1..Len(x) |-> Xor16(x[j], y[j])])

\* x >> k (logical), k >= 0
Shr(x, k) ==
    LET q == k \div 16
        p == 2 ^ (k % 16)
    IN  Tuple([j \in 1..Len(x) |->
            (LimbAt(x, j + q) \div p) + (LimbAt(x, j + q + 1) % p) * (65536 \div p)])

\* x << k within the width of x, k >= 0
Shl(x, k) ==
    LET q == k \div 16
        p == 2 ^ (k % 16)
    IN  Tuple([j \in 1..Len(x) |->
            ((LimbAt(x, j - q) % (65536 \div p)) * p)
            + (LimbAt(x, j - q - 1) \div (65536 \div p))])

\* the carry into limb j of x + y: some lower pair of limbs overflows and
\* every pair between passes the carry on
CarryInto(x, y, j) ==
    \E i \in 1..(j - 1) :
        /\ x[i] + y[i] >= 65536
        /\ \A k \in (i + 1)..(j - 1) : x[k] + y[k] = 65535

\* x + y in the width of x: the wrapped sum and the carry out of the width
AddC(x, y) ==
    [val |-> Tuple([j \in 1..Len(x) |->
                (x[j] + y[j] + IF CarryInto(x, y, j) THEN 1 ELSE 0) % 65536]),
     carry |-> IF CarryInto(x, y, Len(x) + 1) THEN 1 ELSE 0]
Add(x, y) == AddC(x, y).val

\* the borrow into limb j of x - y
BorrowInto(x, y, j) ==
    \E i \in 1..(j - 1) :
        /\ x[i] < y[i]
        /\ \A k \in (i + 1)..(j - 1) : x[k] = y[k]

\* x - y in the width of x: the wrapped difference and the borrow out
SubB(x, y) ==
    [val |-> Tuple([j \in 1..Len(x) |->
                (65536 + x[j] - y[j] - IF BorrowInto(x, y, j) THEN 1 ELSE 0) % 65536]),
     borrow |-> IF BorrowInto(x, y, Len(x) + 1) THEN 1 ELSE 0]
Sub(x, y) == SubB(x, y).val

\* x < y as unsigned values of the same width
Less(x, y) == BorrowInto(x, y, Len(x) + 1)

\* The same operations on a u64, written out for its four limbs.

And64(x, y) ==
    <<And16(x[1], y[1]), And16(x[2], y[2]), And16(x[3], y[3]), And16(x[4], y[4])>>

Shr64(x, k) ==
    LET q == k \div 16
        p == 2 ^ (k % 16)
        r == 65536 \div p
        y == CASE q = 0 -> x
               [] q = 1 -> <<x[2], x[3], x[4], 0>>
               [] q = 2 -> <<x[3], x[4], 0, 0>>
               [] q = 3 -> <<x[4], 0, 0, 0>>
               [] OTHER -> <<0, 0, 0, 0>>
    IN  IF p = 1 THEN y
        ELSE << (y[1] \div p) + (y[2] % p) * r,
                (y[2] \div p) + (y[3] % p) * r,
                (y[3] \div p) + (y[4] % p) * r,
                y[4] \div p >>

Shl64(x, k) ==
    LET q == k \div 16
        p == 2 ^ (k % 16)
        r == 65536 \div p
        y == CASE q = 0 -> x
               [] q = 1 -> <<0, x[1], x[2], x[3]>>
               [] q = 2 -> <<0, 0, x[1], x[2]>>
               [] q = 3 -> <<0, 0, 0, x[1]>>
               [] OTHER -> <<0, 0, 0, 0>>
    IN  IF p = 1 THEN y
        ELSE << (y[1] % r) * p,
                ((y[2] % r) * p) + (y[1] \div r),
                ((y[3] % r) * p) + (y[2] \div r),
                ((y[4] % r) * p) + (y[3] \div r) >>

Add64C(x, y) ==
    LET s1 == x[1] + y[1]
        s2 == x[2] + y[2] + (s1 \div 65536)
        s3 == x[3] + y[3] + (s2 \div 65536)
        s4 == x[4] + y[4] + (s3 \div 65536)
    IN  [val |-> <<s1 % 65536, s2 % 65536, s3 % 65536, s4 % 65536>>,
         carry |-> s4 \div 65536]
Add64(x, y) == Add64C(x, y).val

Sub64B(x, y) ==
    LET d1 == x[1] - y[1]
        d2 == x[2] - y[2] - (IF d1 < 0 THEN 1 ELSE 0)
        d3 == x[3] - y[3] - (IF d2 < 0 THEN 1 ELSE 0)
        d4 == x[4] - y[4] - (IF d3 < 0 THEN 1 ELSE 0)
    IN  [val |-> <<(d1 + 65536) % 65536, (d2 + 65536) % 65536,
                   (d3 + 65536) % 65536, (d4 + 65536) % 65536>>,
         borrow |-> IF d4 < 0 THEN 1 ELSE 0]
Sub64(x, y) == Sub64B(x, y).val

\* a model integer 0 <= n < 65536 as a u64
Small64(n) == <<n, 0, 0, 0>>

\* the bytes of x, least significant first, and the value of given bytes
Bytes(x) ==
    Tuple([b \in 1..(2 * Len(x)) |->
        IF b % 2 = 1 THEN x[(b + 1) \div 2] % 256 ELSE x[b \div 2] \div 256])
FromBytes(bs) ==
    Tuple([j \in 1..(Len(bs) \div 2) |-> bs[2 * j - 1] + 256 * bs[2 * j]])

\* the sum of the byte products of weight 256^(j-1) in x * y
RECURSIVE ColumnFrom(_, _, _, _)
ColumnFrom(x, y, j, i) ==
    IF i > j THEN 0 ELSE x[i] * y[j + 1 - i] + ColumnFrom(x, y, j, i + 1)

\* that sum plus the carry of the lower columns
RECURSIVE ColumnTotal(_, _, _)
ColumnTotal(x, y, j) ==
    IF j = 0 THEN 0
    ELSE ColumnFrom(x, y, j, 1) + (ColumnTotal(x, y, j - 1) \div 256)

\* x * y in the width of x (wrapping); x and y have the same width
Mul(x, y) ==
    LET bx == Bytes(x)
        by == Bytes(y)
    IN  FromBytes(Tuple([j \in 1..Len(bx) |-> ColumnTotal(bx, by, j) % 256]))

Zero64 == U64(0)

\* counter j (0..15) of a table word: its j-th hexadecimal digit
Counter(word, j) == (word[(j \div 4) + 1] \div (16 ^ (j % 4))) % 16

\* ------------------------------------------------------------------------
\* Bit utilities
\* ------------------------------------------------------------------------

MinI32 == -2147483647 - 1
MaxI32 == 2147483647

\* An arithmetic overflow panics in a build with overflow checks (the debug
\* profile) and wraps in a build without them (the release profile).  A
\* function that can overflow takes oc, whether the checks are on, and
\* returns a record: panic tells that the call did not return, overflow that
\* an overflow happened.

number_of_leading_zeros(i) ==
    IF i = 0 THEN 32
    ELSE IF i < 0 THEN 0
    ELSE LET n0 == 31
             b0 == i
             n1 == IF b0 >= 2 ^ 16 THEN n0 - 16 ELSE n0
             b1 == IF b0 >= 2 ^ 16 THEN b0 \div (2 ^ 16) ELSE b0
             n2 == IF b1 >= 2 ^ 8 THEN n1 - 8 ELSE n1
             b2 == IF b1 >= 2 ^ 8 THEN b1 \div (2 ^ 8) ELSE b1
             n3 == IF b2 >= 2 ^ 4 THEN n2 - 4 ELSE n2
             b3 == IF b2 >= 2 ^ 4 THEN b2 \div (2 ^ 4) ELSE b2
             n4 == IF b3 >= 2 ^ 2 THEN n3 - 2 ELSE n3
             b4 == IF b3 >= 2 ^ 2 THEN b3 \div (2 ^ 2) ELSE b3
         IN  n4 - (b4 \div 2)

ceiling_power_of_two(num, oc) ==
    IF num = MinI32 /\ oc
    THEN [panic |-> TRUE, overflow |-> TRUE, val |-> 0]
    ELSE LET pred == IF num = MinI32 THEN MaxI32 ELSE num - 1
             a == number_of_leading_zeros(pred)
             n == Shr(Lit(<<15, 15, 15, 15, 15, 15, 15, 15>>, 2), a)
         IN  [panic |-> FALSE,
              overflow |-> (num = MinI32),
              val |-> IF a = 32 \/ a = 0 THEN 1
                      ELSE IF ~Less(n, U32(2 ^ 30)) THEN 2 ^ 30
                      ELSE Val(Add(n, U32(1)))]

Mask5 == Lit(<<5, 5, 5, 5, 5, 5, 5, 5, 5, 5, 5, 5, 5, 5, 5, 5>>, 4)
Mask3 == Lit(<<3, 3, 3, 3, 3, 3, 3, 3, 3, 3, 3, 3, 3, 3, 3, 3>>, 4)
Mask0f == Lit(<<0, 15, 0, 15, 0, 15, 0, 15, 0, 15, 0, 15, 0, 15, 0, 15>>, 4)
Mask1 == Lit(<<1, 1, 1, 1, 1, 1, 1, 1, 1, 1, 1, 1, 1, 1, 1, 1>>, 4)
Mask7 == Lit(<<7, 7, 7, 7, 7, 7, 7, 7, 7, 7, 7, 7, 7, 7, 7, 7>>, 4)

\* the statements of bit_count, each giving the next value of i
bit_count_pairs(i) == Sub64(i, And64(Shr64(i, 1), Mask5))
bit_count_nibbles(i) == Add64(And64(i, Mask3), And64(Shr64(i, 2), Mask3))
bit_count_bytes(i) == And64(Add64(i, Shr64(i, 4)), Mask0f)
bit_count_fold(i, k) == Add64(i, Shr64(i, k))

bit_count(i) ==
    Val(And64(bit_count_fold(bit_count_fold(bit_count_fold(
            bit_count_bytes(bit_count_nibbles(bit_count_pairs(i))),
            8), 16), 32),
        Small64(7)))

\* ------------------------------------------------------------------------
\* Hashing
\* ------------------------------------------------------------------------

\* The hash code of an item is produced by the standard library's
\* DefaultHasher, which is no part of the repository: the model fixes the
\* hash codes of its items.  In the 8-word table, item 1 has the counters
\* (word, index) (1,13) (3,5) (5,0) (7,1); item 2 shares the counter (3,5)
\* with item 1; item 3 has, in each row, the counter next to the one of
\* item 1 in the same word; item 4 has the four counters of item 1; item 5
\* has the hash code 0.  The items from 6 on have the hash codes 1 * g,
\* 2 * g, ... for g = 0x9e3779b97f4a7c15, which spread over the table.
StreamCodes ==
    Tuple([k \in 1..StreamLen |->
        Mul(U64(k), Lit(<<9, 14, 3, 7, 7, 9, 11, 9, 7, 15, 4, 10, 7, 12, 1, 5>>, 4))])

HashCodes ==
    << Lit(<<0, 1, 2, 3, 4, 5, 6, 7, 8, 9, 10, 11, 12, 13, 14, 15>>, 4),
       Lit(<<9, 5, 3, 1, 9, 8, 5, 13, 5, 13, 9, 13, 12, 9, 15, 8>>, 4),
       Lit(<<5, 0, 2, 3, 3, 0, 0, 5, 13, 11, 10, 3, 13, 3, 1, 11>>, 4),
       Lit(<<13, 10, 1, 8, 10, 0, 9, 14, 0, 7, 8, 6, 14, 9, 14, 11>>, 4),
       Zero64 >>
    \o StreamCodes

Items == 1..NumItems
StreamItems == 6..(5 + StreamLen)

default_hash_code(e) == HashCodes[e]

spread_mix(hash_code) ==
    LET x0 == Cast(hash_code, 8)
        x1 == BitXor(x0, Shr(x0, 17))
        x2 == Mul(x1, Lit(<<14, 13, 5, 10, 13, 4, 11, 11>>, 8))
        x3 == BitXor(x2, Shr(x2, 11))
        x4 == Mul(x3, Lit(<<10, 12, 4, 12, 1, 11, 5, 1>>, 8))
        x5 == BitXor(x4, Shr(x4, 15))
    IN  Cast(x5, 4)

rehash_mix(x) ==
    LET x0 == Cast(x, 8)
        x1 == Mul(x0, Lit(<<3, 1, 8, 4, 8, 11, 10, 11>>, 8))
        x2 == BitXor(x1, Shr(x1, 14))
    IN  Cast(x2, 4)

\* spread and rehash, computed once for each hash code of the model
SpreadOf == Tuple([e \in DOMAIN HashCodes |-> spread_mix(HashCodes[e])])
RehashOf == Tuple([e \in DOMAIN HashCodes |-> rehash_mix(SpreadOf[e])])

spread(hash_code) ==
    SpreadOf[CHOOSE e \in DOMAIN HashCodes : HashCodes[e] = hash_code]
rehash(x) ==
    RehashOf[CHOOSE e \in DOMAIN HashCodes : SpreadOf[e] = x]

\* ------------------------------------------------------------------------
\* Construction
\* ------------------------------------------------------------------------

\* x as i32: the low 32 bits of x read as a two's complement number
AsI32(x) ==
    IF x[2] >= 32768 THEN MinI32 + (x[1] + 65536 * (x[2] - 32768))
    ELSE x[1] + 65536 * x[2]

\* vec![fill; len], and the words it lays out (indexed from 0)
vec(fill, len) == [fill |-> fill, len |-> len]
Words(v) == [k \in 0..(Val(v.len) - 1) |-> v.fill]

\* new with the sample size computed without the test maximum > 0
new_unguarded_sample(maximum_size, oc) ==
    LET bound == Shr(U64(MaxI32), 1)
        maximum == IF Less(bound, maximum_size) THEN bound ELSE maximum_size
        sample_size == Mul(U64(10), maximum)
        c == ceiling_power_of_two(AsI32(maximum), oc)
        pow == U32(c.val)
        table_len == Cast(IF Less(pow, U32(8)) THEN U32(8) ELSE pow, 4)
    IN  [ panic |-> c.panic,
          overflow |-> c.overflow,
          sketch |->
            [ sample_size |-> sample_size,
              block_mask  |-> Sub(Shr(table_len, 3), U64(1)),
              table       |-> vec(Zero64, table_len),
              table_len   |-> table_len,
              size        |-> Zero64,
              max_size    |-> maximum ] ]

new(maximum_size, oc) ==
    LET bound == Shr(U64(MaxI32), 1)
        maximum == IF Less(bound, maximum_size) THEN bound ELSE maximum_size
        sample_size == IF Less(Zero64, maximum) THEN Mul(U64(10), maximum)
                       ELSE U64(10)
        c == ceiling_power_of_two(AsI32(maximum), oc)
        pow == U32(c.val)
        table_len == Cast(IF Less(pow, U32(8)) THEN U32(8) ELSE pow, 4)
    IN  [ panic |-> c.panic,
          overflow |-> c.overflow,
          sketch |->
            [ sample_size |-> sample_size,
              block_mask  |-> Sub(Shr(table_len, 3), U64(1)),
              table       |-> vec(Zero64, table_len),
              table_len   |-> table_len,
              size        |-> Zero64,
              max_size    |-> maximum ] ]

get_max_size(s) == s.max_size
get_table_len(s) == s.table_len

\* ------------------------------------------------------------------------
\* Estimation, increment and aging
\* ------------------------------------------------------------------------

Min2(a, b) == IF a <= b THEN a ELSE b

\* (x as u8): the low 8 bits
AsU8(x) == x[1] % 256

\* Per row i, frequency and increment take the 8-bit window i of the counter
\* hash: its bit 0 is the word offset, its bits 1..4 are the counter index.
\* Both are below 16 and are kept as model integers, as are the word
\* positions block + offset + 2i, which stay below table_len <= 2^30.
\* the row of frequency with the offset taken from two bits of the hash
frequency_row_wide(counter_hash, i) ==
    LET h == Shr(counter_hash, i * 8)
    IN  [index |-> Val(BitAnd(Shr(h, 1), U64(15))),
         offset |-> Val(BitAnd(h, U64(3)))]

frequency_row(counter_hash, i) ==
    LET h == Shr(counter_hash, i * 8)
    IN  [index |-> Val(BitAnd(Shr(h, 1), U64(15))),
         offset |-> Val(BitAnd(h, U64(1)))]

increment_row(counter_hash, i) ==
    LET h == Shr(counter_hash, i * 8)
    IN  [index |-> Val(BitAnd(Shr(h, 1), U64(15))),
         offset |-> Val(BitAnd(h, U64(1)))]

\* the rows of every item of the model, computed once (entry [e][i + 1])
FrequencyRows ==
    Tuple([e \in DOMAIN HashCodes |->
        Tuple([i \in 1..4 |->
            frequency_row(rehash(spread(default_hash_code(e))), i - 1)])])
IncrementRows ==
    Tuple([e \in DOMAIN HashCodes |->
        Tuple([i \in 1..4 |->
            increment_row(rehash(spread(default_hash_code(e))), i - 1)])])

\* 0xf << (j << 2) and 1 << (j << 2) for the counter index j, computed once
\* (entry [j + 1])
NibbleMask == Tuple([j \in 1..16 |-> Shl(U64(15), (j - 1) * 4)])
NibbleOne == Tuple([j \in 1..16 |-> Shl(U64(1), (j - 1) * 4)])
Low4 == U64(15)

\* frequency without the mask 0xf on the shifted word
frequency_unmasked(s, e) ==
    LET block_hash == spread(default_hash_code(e))
        block == Val(Shl64(And64(block_hash, s.block_mask), 3))
        rows == FrequencyRows[e]
        count == [i \in 1..4 |->
            AsU8(Shr64(s.table[block + rows[i].offset + (i - 1) * 2],
                       rows[i].index * 4))]
    IN  Min2(Min2(count[1], count[2]), Min2(count[3], count[4]))

\* what frequency computes per row: the counter indices, then the word
\* indices block + offset + (i << 1)
frequency_index(s, e) ==
    LET block_hash == spread(default_hash_code(e))
        block == Val(Shl64(And64(block_hash, s.block_mask), 3))
        rows == FrequencyRows[e]
    IN  Tuple([i \in 1..8 |->
            IF i <= 4 THEN rows[i].index
            ELSE block + rows[i - 4].offset + (i - 5) * 2])

\* the counts frequency reads at these indices, and their minimum
frequency_at(table, index) ==
    LET count == [i \in 1..4 |->
            AsU8(And64(Shr64(table[index[i + 4]], index[i] * 4), Low4))]
    IN  Min2(Min2(count[1], count[2]), Min2(count[3], count[4]))

frequency(s, e) == frequency_at(s.table, frequency_index(s, e))

\* increment_at with the bit offset j << 1 in place of j << 2
increment_at_shift(table, i, j) ==
    LET mask == Shl64(Low4, j * 2)
    IN  IF And64(table[i], mask) # mask
        THEN [table |-> [table EXCEPT ![i] = Add64(@, Shl64(Small64(1), j * 2))],
              added |-> TRUE]
        ELSE [table |-> table, added |-> FALSE]

\* increment_at without the test for a counter at its maximum
increment_at_wrapping(table, i, j) ==
    [table |-> [table EXCEPT ![i] = Add64(@, NibbleOne[j + 1])], added |-> TRUE]

increment_at(table, i, j) ==
    LET mask == NibbleMask[j + 1]
    IN  IF And64(table[i], mask) # mask
        THEN [table |-> [table EXCEPT ![i] = Add64(@, NibbleOne[j + 1])],
              added |-> TRUE]
        ELSE [table |-> table, added |-> FALSE]

\* what the turns of the loop of reset add to count: for word w, entry
\* [w + 1] is bit_count(*i & 0x1111111111111111)
reset_counts(table) ==
    Tuple([i \in 1..Cardinality(DOMAIN table) |->
        bit_count(And64(table[i - 1], Mask1))])

\* One turn of the loop of reset, for word k, after the turns that have
\* ended as st: count is the u8 accumulator and done the number of words
\* stored.  An overflow of count ends the loop in a panic (oc) or wraps.
reset_step(st, counts, k, oc) ==
    LET c == st.count + counts[k + 1]
    IN  IF c > 255 /\ oc
        THEN [panic |-> TRUE, overflow |-> TRUE, count |-> st.count, done |-> k]
        ELSE [panic |-> FALSE, overflow |-> (st.overflow \/ c > 255),
              count |-> c % 256, done |-> k + 1]

\* the turns for the words lo .. hi - 1 in their order, the first half of
\* them and then, unless that has panicked, the rest
RECURSIVE reset_range(_, _, _, _, _)
RECURSIVE reset_rest(_, _, _, _, _)
reset_range(st, counts, lo, hi, oc) ==
    IF hi <= lo THEN st
    ELSE IF hi = lo + 1 THEN reset_step(st, counts, lo, oc)
    ELSE reset_rest(reset_range(st, counts, lo, (lo + hi) \div 2, oc),
                    counts, (lo + hi) \div 2, hi, oc)
reset_rest(st, counts, mid, hi, oc) ==
    IF st.panic THEN st ELSE reset_range(st, counts, mid, hi, oc)

\* the table after the turns from word k on have ended as l: halved holds,
\* for every word, what the turn for it stores
reset_store(table, k, halved, l) ==
    [panic |-> l.panic, overflow |-> l.overflow, count |-> l.count,
     table |-> [w \in DOMAIN table |->
                   IF w >= k /\ w < l.done THEN halved[w] ELSE table[w]]]

\* the turns of the loop from word k on
reset_turns(table, k, count, overflow, oc) ==
    reset_range([panic |-> FALSE, overflow |-> overflow, count |-> count,
                 done |-> k],
                reset_counts(table), k, Cardinality(DOMAIN table), oc)

\* the loop of reset without the mask 0x7777777777777777 on the shifted word
reset_loop_unmasked(table, k, count, overflow, oc) ==
    reset_store(table, k, [w \in DOMAIN table |-> Shr64(table[w], 1)],
                reset_turns(table, k, count, overflow, oc))

\* the loop of reset with the mask applied before the shift
reset_loop_masked_first(table, k, count, overflow, oc) ==
    reset_store(table, k, [w \in DOMAIN table |-> Shr64(And64(table[w], Mask7), 1)],
                reset_turns(table, k, count, overflow, oc))

\* the loop of reset from word k on
reset_loop(table, k, count, overflow, oc) ==
    reset_store(table, k, [w \in DOMAIN table |-> And64(Shr64(table[w], 1), Mask7)],
                reset_turns(table, k, count, overflow, oc))

\* the last statement of reset, after a loop that has ended as l, with
\* d = size - (count >> 2)
reset_size(s, l, d, oc) ==
    IF l.panic \/ (d.borrow = 1 /\ oc)
    THEN [panic |-> TRUE, overflow |-> TRUE,
          sketch |-> [s EXCEPT !.table = l.table]]
    ELSE [panic |-> FALSE, overflow |-> (l.overflow \/ d.borrow = 1),
          sketch |-> [s EXCEPT !.table = l.table, !.size = Shr64(d.val, 1)]]

\* that statement storing the recomputed size in sample_size
reset_into_sample_size(s, l, oc) ==
    [panic |-> l.panic, overflow |-> l.overflow,
     sketch |-> [s EXCEPT !.table = l.table,
                          !.sample_size = Shr64(Sub64(s.size, Small64(l.count \div 4)), 1)]]

\* that statement subtracting count >> 1 in place of count >> 2
reset_shift1(s, l, oc) ==
    reset_size(s, l, Sub64B(s.size, Small64(l.count \div 2)), oc)

\* that statement without the final >> 1
reset_unhalved(s, l, oc) ==
    [panic |-> l.panic, overflow |-> l.overflow,
     sketch |-> [s EXCEPT !.table = l.table,
                          !.size = Sub64(s.size, Small64(l.count \div 4))]]

reset_after_loop(s, l, oc) ==
    reset_size(s, l, Sub64B(s.size, Small64(l.count \div 4)), oc)

reset(s, oc) == reset_after_loop(s, reset_loop(s.table, 0, 0, FALSE, oc), oc)

\* the array index of increment: the counter indices, then the word indices
increment_index(s, e) ==
    LET block_hash == spread(default_hash_code(e))
        block == Val(Shl64(And64(block_hash, s.block_mask), 3))
        rows == IncrementRows[e]
    IN  Tuple([i \in 1..8 |->
            IF i <= 4 THEN rows[i].index
            ELSE block + rows[i - 4].offset + (i - 5) * 2])

\* one operand of the | chain of increment, after the operands before it
increment_or(acc, i, j) ==
    LET a == increment_at(acc.table, i, j)
    IN  [table |-> a.table, added |-> (acc.added \/ a.added)]

\* one operand of a || chain in its place: not evaluated once one is true
increment_or_else(acc, i, j) ==
    IF acc.added THEN acc ELSE increment_at(acc.table, i, j)

\* the four increment_at calls joined by || in place of |
increment_counters_short_circuit(table, index) ==
    increment_or_else(increment_or_else(increment_or_else(increment_or_else(
        [table |-> table, added |-> FALSE],
        index[5], index[1]), index[6], index[2]), index[7], index[3]),
        index[8], index[4])

\* one operand of a & chain in its place
increment_and(acc, i, j) ==
    LET a == increment_at(acc.table, i, j)
    IN  [table |-> a.table, added |-> (acc.added /\ a.added)]

\* the four increment_at calls joined by & in place of |
increment_counters_all(table, index) ==
    increment_and(increment_and(increment_and(increment_and(
        [table |-> table, added |-> TRUE],
        index[5], index[1]), index[6], index[2]), index[7], index[3]),
        index[8], index[4])

\* the four increment_at calls of increment, joined by |
increment_counters(table, index) ==
    increment_or(increment_or(increment_or(increment_or(
        [table |-> table, added |-> FALSE],
        index[5], index[1]), index[6], index[2]), index[7], index[3]),
        index[8], index[4])

\* the end of an increment whose reset call has ended as r
increment_aged(r) ==
    [panic |-> r.panic, overflow |-> r.overflow, sketch |-> r.sketch,
     aged |-> TRUE]

\* the end of increment for a sketch u whose size has been incremented
increment_sample(u, oc) ==
    IF u.size = u.sample_size
    THEN increment_aged(reset(u, oc))
    ELSE [panic |-> FALSE, overflow |-> FALSE, sketch |-> u, aged |-> FALSE]

\* the end of increment without the test of added: size += 1 and the
\* comparison with sample_size on every call
increment_added_always(s, a, oc) ==
    increment_sample([s EXCEPT !.table = a.table,
                               !.size = Add64(@, Small64(1))], oc)

\* the end of increment after the increment_at calls have ended as a
increment_added(s, a, oc) ==
    IF a.added
    THEN increment_sample([s EXCEPT !.table = a.table,
                                    !.size = Add64(@, Small64(1))], oc)
    ELSE [panic |-> FALSE, overflow |-> FALSE,
          sketch |-> [s EXCEPT !.table = a.table], aged |-> FALSE]

increment(s, e, oc) ==
    increment_added(s, increment_counters(s.table, increment_index(s, e)), oc)

\* ------------------------------------------------------------------------
\* The sketch in use
\* ------------------------------------------------------------------------

VARIABLES
    sketch,     \* the FrequencyCountSketch
    unchecked,  \* an overflow has wrapped: the build has no overflow checks
    panicked,   \* a call has panicked: the program has stopped
    incs,       \* per item, the increment calls so far (15 stands for 15 or
                \* more), as long as no aging pass has run
    aged,       \* an aging pass has run
    op,         \* the last call: "new", "increment", "reset" or "frequency"
    ran_reset,  \* the last call ran an aging pass
    read,       \* the item and the result of the last call, if a frequency
    call        \* the last call of a free function, with its result

vars == <<sketch, unchecked, panicked, incs, aged, op, ran_reset, read, call>>

NoRead == [item |-> 0, value |-> 0]
NoCall == [fn |-> "none", done |-> FALSE]

\* The results a call can have: that of the build without overflow checks
\* and, when an overflow happens in it and no earlier overflow has wrapped,
\* that of the build with them.
Outcomes(wrapping, checking) ==
    IF wrapping.overflow /\ ~unchecked THEN {wrapping, checking} ELSE {wrapping}

\* the state new(m) leaves, for the sizes m up to largest
Fresh(largest) ==
    /\ \E m \in 0..largest :
          \E n \in {new(U64(m), TRUE)} :
              /\ sketch = [n.sketch EXCEPT !.table = Words(@)]
              /\ panicked = n.panic
    /\ unchecked = FALSE
    /\ incs = [e \in Items |-> 0]
    /\ aged = FALSE
    /\ op = "new"
    /\ ran_reset = FALSE
    /\ read = NoRead

Init ==
    /\ Fresh(MaxMaximumSize)
    /\ call = NoCall

Increment(e) ==
    /\ ~panicked
    /\ \E r \in Outcomes(increment(sketch, e, FALSE), increment(sketch, e, TRUE)) :
           /\ sketch' = r.sketch
           /\ panicked' = r.panic
           /\ unchecked' = (unchecked \/ (r.overflow /\ ~r.panic))
           /\ ran_reset' = r.aged
           /\ aged' = (aged \/ r.aged)
           /\ incs' = IF aged \/ r.aged THEN [x \in Items |-> 0]
                      ELSE [incs EXCEPT ![e] = Min2(@ + 1, 15)]
    /\ op' = "increment"
    /\ read' = NoRead
    /\ UNCHANGED call

Reset ==
    /\ ~panicked
    /\ \E r \in Outcomes(reset(sketch, FALSE), reset(sketch, TRUE)) :
           /\ sketch' = r.sketch
           /\ panicked' = r.panic
           /\ unchecked' = (unchecked \/ (r.overflow /\ ~r.panic))
    /\ ran_reset' = TRUE
    /\ aged' = TRUE
    /\ incs' = [x \in Items |-> 0]
    /\ op' = "reset"
    /\ read' = NoRead
    /\ UNCHANGED call

\* a frequency call that counts the access in size
Frequency_counting(e) ==
    /\ ~panicked
    /\ read' = [item |-> e, value |-> frequency(sketch, e)]
    /\ op' = "frequency"
    /\ ran_reset' = FALSE
    /\ sketch' = [sketch EXCEPT !.size = Add64(@, Small64(1))]
    /\ UNCHANGED <<unchecked, panicked, incs, aged, call>>

Frequency(e) ==
    /\ ~panicked
    /\ read' = [item |-> e, value |-> frequency(sketch, e)]
    /\ op' = "frequency"
    /\ ran_reset' = FALSE
    /\ UNCHANGED <<sketch, unchecked, panicked, incs, aged, call>>

\* the sketch under increment and reset calls
Next ==
    \/ \E e \in Items : Increment(e)
    \/ Reset

Spec == Init /\ [][Next]_vars

\* the same with frequency calls in between
NextRead ==
    \/ \E e \in Items : Increment(e)
    \/ Reset
    \/ \E e \in Items : Frequency(e)

InitRead ==
    /\ Fresh(MaxReadMaximumSize)
    /\ call = NoCall

SpecRead == InitRead /\ [][NextRead]_vars

\* ------------------------------------------------------------------------
\* The free functions and the constructor, applied to sampled arguments
\* ------------------------------------------------------------------------

\* the powers of two 2^3 .. 2^30 and their neighbours
AroundPowers == {2 ^ k + d : k \in 3..30, d \in {-1, 0, 1}}

\* the arguments of new: every size up to MaxArg, the sizes around the powers
\* of two up to 2^30 + 1, and sizes around 2^31, 2^32 and the end of usize
NewArgs ==
    {U64(m) : m \in (0..MaxArg) \cup AroundPowers}
    \cup { U64(MaxI32),
           Lit(<<8, 0, 0, 0, 0, 0, 0, 0>>, 4),
           Lit(<<15, 15, 15, 15, 15, 15, 15, 15>>, 4),
           Lit(<<1, 0, 0, 0, 0, 0, 0, 0, 0>>, 4),
           Lit(<<1, 0, 0, 0, 0, 0, 0, 0, 5>>, 4),
           Lit(<<8, 0, 0, 0, 0, 0, 0, 0, 0, 0, 0, 0, 0, 0, 0, 0>>, 4),
           Lit(<<15, 15, 15, 15, 15, 15, 15, 15, 15, 15, 15, 15, 15, 15, 15, 15>>, 4) }

\* the arguments of ceiling_power_of_two: every i32 from -3 to MaxArg, the
\* ones around the powers of two, and the ends of i32
CeilArgs ==
    ((-3)..MaxArg) \cup AroundPowers
    \cup {MinI32, MinI32 + 1, -(2 ^ 30), MaxI32 - 1, MaxI32}

\* the arguments of bit_count: every value up to MaxArg, the single bits,
\* the values 2^k - 1, the words with every counter at 1, 5, 7 or 15, and the
\* words whose lowest n counters are 1
BitCountArgs ==
    {U64(i) : i \in 0..MaxArg}
    \cup {Shl64(Small64(1), k) : k \in 0..63}
    \cup {Sub64(Shl64(Small64(1), k), Small64(1)) : k \in 0..63}
    \cup {Mask1, Mask5, Mask7, <<65535, 65535, 65535, 65535>>}
    \cup {And64(Mask1, Sub64(Shl64(Small64(1), 4 * n), Small64(1))) : n \in 0..15}

\* the sketches whose indices are computed: new(m) for sizes m that give
\* every table_len from 8 to 2^30
IndexSizes ==
    {U64(m) : m \in {0, 8, 9, 16, 17, 33, 64, 65, 100, 1000, 2 ^ 20, 2 ^ 29 + 1, 2 ^ 30 - 1}}
    \cup {U64(2 ^ k) : k \in 7..30}
    \cup {<<65535, 65535, 65535, 65535>>}

\* a call is about to be made, with an argument and a build
InitFn ==
    /\ Fresh(MaxMaximumSize)
    /\ \E oc \in BOOLEAN :
          \/ \E m \in NewArgs :
                 call = [fn |-> "new", arg |-> m, oc |-> oc, done |-> FALSE]
          \/ \E n \in CeilArgs :
                 call = [fn |-> "ceiling_power_of_two", arg |-> n, oc |-> oc,
                         done |-> FALSE]
          \/ \E i \in BitCountArgs :
                 call = [fn |-> "bit_count", arg |-> i, oc |-> oc, done |-> FALSE]
          \/ \E m \in IndexSizes : \E e \in DOMAIN HashCodes :
                 call = [fn |-> "index", arg |-> [maximum_size |-> m, item |-> e],
                         oc |-> oc, done |-> FALSE]

NewCall ==
    /\ call.fn = "new"
    /\ ~call.done
    /\ call' = [fn |-> "new", arg |-> call.arg, oc |-> call.oc, done |-> TRUE,
                out |-> new(call.arg, call.oc)]
    /\ UNCHANGED <<sketch, unchecked, panicked, incs, aged, op, ran_reset, read>>

CeilCall ==
    /\ call.fn = "ceiling_power_of_two"
    /\ ~call.done
    /\ call' = [fn |-> "ceiling_power_of_two", arg |-> call.arg, oc |-> call.oc,
                done |-> TRUE, out |-> ceiling_power_of_two(call.arg, call.oc)]
    /\ UNCHANGED <<sketch, unchecked, panicked, incs, aged, op, ran_reset, read>>

BitCountCall ==
    /\ call.fn = "bit_count"
    /\ ~call.done
    /\ call' = [fn |-> "bit_count", arg |-> call.arg, oc |-> call.oc,
                done |-> TRUE, out |-> bit_count(call.arg)]
    /\ UNCHANGED <<sketch, unchecked, panicked, incs, aged, op, ran_reset, read>>

\* the indices increment and frequency compute for an item in a new sketch
IndexOf(s, e) ==
    [table_len |-> s.table_len,
     increment |-> increment_index(s, e),
     frequency |-> frequency_index(s, e)]

IndexCall ==
    /\ call.fn = "index"
    /\ ~call.done
    /\ call' = [fn |-> "index", arg |-> call.arg, oc |-> call.oc, done |-> TRUE,
                out |-> IndexOf(new(call.arg.maximum_size, call.oc).sketch,
                                call.arg.item)]
    /\ UNCHANGED <<sketch, unchecked, panicked, incs, aged, op, ran_reset, read>>

NextFn ==
    \/ NewCall
    \/ CeilCall
    \/ BitCountCall
    \/ IndexCall

SpecFn == InitFn /\ [][NextFn]_vars

\* ------------------------------------------------------------------------
\* Properties
\* ------------------------------------------------------------------------

\* the powers of two a u32 below 2^31 can be
PowersOfTwo == {2 ^ k : k \in 0..30}

\* x is a u64 below 2^31
Fits(x) == x[2] < 32768 /\ x[3] = 0 /\ x[4] = 0

\* the count reset accumulates over the table of s, in a build that wraps
ResetCount(s) == reset_loop(s.table, 0, 0, FALSE, FALSE).count

\* C1: on a fresh sketch, after n calls of increment(x) and no other call,
\* with n < 15 and n < sample_size, frequency(x) = n.
C1_FreshCountIsExact ==
    \A x \in Items :
        ( /\ ~aged
          /\ \A y \in Items \ {x} : incs[y] = 0
          /\ incs[x] < 15
          /\ Less(U64(incs[x]), sketch.sample_size) )
        => frequency(sketch, x) = incs[x]

C1_Witness ==
    /\ ~aged
    /\ incs[1] = 14
    /\ \A y \in Items \ {1} : incs[y] = 0
    /\ Less(U64(incs[1]), sketch.sample_size)
    /\ frequency(sketch, 1) = 14

\* C2: as long as no aging pass has run, frequency(x) is at least
\* min(15, the number of increment(x) calls), whatever the other items.
C2_NeverUnderEstimates ==
    ~aged => \A x \in Items : frequency(sketch, x) >= Min2(15, incs[x])

\* item 1 is saturated and item 2, which shares a counter with it, counted
C2_Witness ==
    /\ ~aged
    /\ incs[1] = 15
    /\ incs[2] >= 2
    /\ frequency(sketch, 1) = 15
    /\ frequency(sketch, 2) = incs[2]

\* C3: an increment call that runs no aging pass lowers the frequency of no
\* item.
C3_IncrementIsMonotone ==
    [][ (op' = "increment" /\ ~ran_reset')
        => \A x \in Items : frequency(sketch', x) >= frequency(sketch, x) ]_vars

\* an increment without aging has left item 1 saturated and item 2 counted
C3_Witness ==
    /\ op = "increment"
    /\ ~ran_reset
    /\ frequency(sketch, 1) = 15
    /\ frequency(sketch, 2) >= 1

\* C4: after a reset call the frequency of every item is at most the
\* rounded-up half of its frequency before the call.
C4_ResetHalves ==
    [][ op' = "reset"
        => \A x \in Items :
               frequency(sketch', x) <= (frequency(sketch, x) + 1) \div 2 ]_vars

\* a reset has left items 1 and 3, whose counters are neighbours, with
\* frequencies of at least 3 and 1
C4_Witness ==
    /\ op = "reset"
    /\ ~panicked
    /\ frequency(sketch, 1) >= 3
    /\ frequency(sketch, 3) >= 1

\* C5: the frequency of every item is in 0..15 and so is every counter of
\* the table, whose words are 64-bit values.
C5_CountersBounded ==
    /\ \A x \in Items : frequency(sketch, x) \in 0..15
    /\ \A k \in DOMAIN sketch.table :
          /\ \A l \in 1..4 : sketch.table[k][l] \in 0..65535
          /\ \A j \in 0..15 : Counter(sketch.table[k], j) \in 0..15

\* item 1 is saturated after an aging pass, next to counters of item 3
C5_Witness ==
    /\ aged
    /\ frequency(sketch, 1) = 15
    /\ frequency(sketch, 3) >= 1

\* C6: new(maximum_size) gives max_size = min(maximum_size, 2^30 - 1), a
\* table_len that is a power of two, at least 8 and the smallest power of two
\* >= max_size when that is >= 8, sample_size = 10 * max_size (10 for
\* max_size = 0), block_mask = (table_len >> 3) - 1, size = 0 and a table of
\* table_len words whose counters are all 0; new(0) gives table_len 8 and
\* max_size 0.
C6_NewIsSized ==
    /\ (call.fn = "new" /\ call.done) =>
          LET m == call.arg
              s == call.out.sketch
              clamped == m[2] >= 16384 \/ m[3] # 0 \/ m[4] # 0
              ms == Val(s.max_size)
              tl == Val(s.table_len)
              low == 10 * s.max_size[1]
              high == 10 * s.max_size[2] + (low \div 65536)
          IN  /\ ~call.out.panic
              /\ s.max_size = IF clamped THEN U64(2 ^ 30 - 1) ELSE m
              /\ Fits(s.table_len)
              /\ tl \in PowersOfTwo
              /\ tl >= 8
              /\ tl >= ms
              /\ tl > 8 => tl \div 2 < ms
              /\ s.sample_size = IF ms = 0 THEN U64(10)
                                 ELSE <<low % 65536, high % 65536, high \div 65536, 0>>
              /\ Fits(s.block_mask)
              /\ Val(s.block_mask) = (tl \div 8) - 1
              /\ s.size = <<0, 0, 0, 0>>
              /\ s.table.len = s.table_len
              /\ \A j \in 0..15 : Counter(s.table.fill, j) = 0
              /\ m = U64(0) => (get_table_len(s) = U64(8) /\ get_max_size(s) = U64(0))
    /\ op = "new" =>
          /\ DOMAIN sketch.table = 0..(Val(sketch.table_len) - 1)
          /\ \A k \in DOMAIN sketch.table : \A j \in 0..15 :
                 Counter(sketch.table[k], j) = 0
          /\ sketch.size = <<0, 0, 0, 0>>

\* new has returned for the largest usize: the size is clamped
C6_Witness ==
    /\ call.fn = "new"
    /\ call.done
    /\ call.arg = <<65535, 65535, 65535, 65535>>
    /\ ~call.out.panic
    /\ call.out.sketch.max_size = U64(2 ^ 30 - 1)
    /\ Val(call.out.sketch.table_len) = 2 ^ 30

\* C7: in every state a reset call finds size >= count >> 2: its
\* subtraction does not underflow.
C7_ResetNeverUnderflows ==
    ~panicked =>
        Sub64B(sketch.size, Small64(ResetCount(sketch) \div 4)).borrow = 0

\* a reset has run and the next one would subtract all of size, which is
\* not 0
C7_Witness ==
    /\ op = "reset"
    /\ ~panicked
    /\ sketch.size # <<0, 0, 0, 0>>
    /\ sketch.size = Small64(ResetCount(sketch) \div 4)

\* C8: a frequency call leaves the sketch as it is, and a second call for
\* the same item right after it returns the same value.
C8_FrequencyIsPure ==
    [][ op' = "frequency"
        => /\ sketch' = sketch
           /\ (op = "frequency" /\ read.item = read'.item)
                  => read'.value = read.value ]_vars

\* a frequency call has returned a count after an aging pass
C8_Witness ==
    /\ op = "frequency"
    /\ aged
    /\ read.item = 1
    /\ read.value >= 1

\* C9: no call changes table_len, the length of the table, block_mask,
\* sample_size or max_size.
C9_SizingIsFixed ==
    [][ /\ sketch'.table_len = sketch.table_len
        /\ DOMAIN sketch'.table = DOMAIN sketch.table
        /\ sketch'.block_mask = sketch.block_mask
        /\ sketch'.sample_size = sketch.sample_size
        /\ sketch'.max_size = sketch.max_size ]_vars

\* a frequency call follows an aging pass that has left size and counters
\* changed, with the sizing of new(1)
C9_Witness ==
    /\ op = "frequency"
    /\ aged
    /\ sketch.size # <<0, 0, 0, 0>>
    /\ read.value >= 1
    /\ sketch.max_size = U64(1)
    /\ sketch.sample_size = U64(10)
    /\ sketch.table_len = U64(8)
    /\ DOMAIN sketch.table = 0..7

\* C10: ceiling_power_of_two(n) is 1 for n <= 1, the smallest power of two
\* >= n for 1 < n <= 2^30, and 2^30 for n > 2^30.
C10_CeilingPowerOfTwo ==
    (call.fn = "ceiling_power_of_two" /\ call.done) =>
        /\ ~call.out.panic
        /\ call.out.val =
              IF call.arg <= 1 THEN 1
              ELSE IF call.arg > 2 ^ 30 THEN 2 ^ 30
              ELSE CHOOSE p \in PowersOfTwo :
                       /\ p >= call.arg
                       /\ \A q \in PowersOfTwo : q >= call.arg => p <= q

\* ------------------------------------------------------------------------
\* Increment and aging, call by call
\* ------------------------------------------------------------------------

\* the counters increment(e) addresses in s, as <<word, counter>> pairs
Addressed(s, e) ==
    LET index == increment_index(s, e)
    IN  {<<index[i + 4], index[i]>> : i \in 1..4}

\* increment(e) finds one of its counters below 15 in s
Changes(s, e) ==
    \E p \in Addressed(s, e) : Counter(s.table[p[1]], p[2]) < 15

\* C11: an increment call runs an aging pass exactly when one of its four
\* counters changed and size + 1 equals sample_size: a call that runs one is
\* the call for an item with a counter below 15, at size + 1 = sample_size;
\* a call that runs none either leaves the sketch as it is or changes the
\* table, adds 1 to size and stays below sample_size.  As long as no aging
\* pass has run, size counts the successful increments and stays below
\* sample_size.
C11_AgingAtSampleSize ==
    [][ /\ (op' = "increment" /\ ~panicked' /\ ran_reset') =>
              /\ Add64(sketch.size, Small64(1)) = sketch.sample_size
              /\ \E e \in Items :
                     /\ Changes(sketch, e)
                     /\ sketch' = increment(sketch, e, FALSE).sketch
        /\ (op' = "increment" /\ ~panicked' /\ ~ran_reset') =>
              IF sketch'.table = sketch.table
              THEN /\ sketch' = sketch
                   /\ \E e \in Items : ~Changes(sketch, e)
              ELSE /\ sketch'.size = Add64(sketch.size, Small64(1))
                   /\ sketch'.size # sketch.sample_size
        /\ ~aged => Less(sketch.size, sketch.sample_size)
        /\ (~aged /\ aged' /\ op' = "increment") =>
              Add64(sketch.size, Small64(1)) = sketch.sample_size ]_vars

\* the tenth increment of item 1 on new(0) has run the aging pass: its
\* counters are 5 and size is 5
C11_Witness ==
    /\ op = "increment"
    /\ ran_reset
    /\ ~panicked
    /\ sketch.sample_size = U64(10)
    /\ sketch.size = U64(5)
    /\ frequency(sketch, 1) = 5

\* what increment_at leaves in a counter that held c
Saturated(c) == IF c < 15 THEN c + 1 ELSE 15

\* C12: an increment call, for some item e, handles all four counters of e:
\* one below 15 gets 1 more and one at 15 stays (an aging pass run by the
\* same call then halves them); size gets 1 more exactly when one of the four
\* changed; when all four are at 15 the table and size stay as they are and
\* no aging pass runs.
C12_SaturatingIncrement ==
    [][ (op' = "increment" /\ ~panicked') =>
            \E e \in Items :
                /\ \A p \in Addressed(sketch, e) :
                       Counter(sketch'.table[p[1]], p[2]) =
                           IF ran_reset'
                           THEN Saturated(Counter(sketch.table[p[1]], p[2])) \div 2
                           ELSE Saturated(Counter(sketch.table[p[1]], p[2]))
                /\ ~ran_reset' =>
                       sketch'.size =
                           IF Changes(sketch, e)
                           THEN Add64(sketch.size, Small64(1))
                           ELSE sketch.size
                /\ ~Changes(sketch, e) => (sketch' = sketch /\ ~ran_reset')
      ]_vars

\* after 8 increment calls of item 1 and 8 of item 2 the counter they share
\* is at 15 and the other counters of item 1 are at 8; size is 16
C12_Witness ==
    /\ op = "increment"
    /\ ~aged
    /\ incs[1] = 8
    /\ incs[2] = 8
    /\ Counter(sketch.table[3], 5) = 15
    /\ Counter(sketch.table[1], 13) = 8
    /\ sketch.size = U64(16)

\* C14: an increment call that runs no aging pass leaves every counter of
\* the table other than the four it addresses for its item as it was, and
\* the table at its length: adding 1 << offset to a word carries into no
\* other counter.
C14_IncrementTouchesOwnCounters ==
    [][ (op' = "increment" /\ ~panicked' /\ ~ran_reset') =>
            /\ DOMAIN sketch'.table = DOMAIN sketch.table
            /\ \E e \in Items :
                   \A k \in DOMAIN sketch.table :
                       sketch'.table[k] # sketch.table[k] =>
                           \A j \in 0..15 :
                               Counter(sketch'.table[k], j) # Counter(sketch.table[k], j)
                                   => <<k, j>> \in Addressed(sketch, e)
      ]_vars

\* item 1 has its counters at 15 and has been incremented at least once
\* more; the counters of item 3, their upper neighbours, hold its 2 calls
C14_Witness ==
    /\ op = "increment"
    /\ ~aged
    /\ incs[1] = 15
    /\ incs[3] = 2
    /\ Counter(sketch.table[1], 13) = 15
    /\ Counter(sketch.table[1], 14) = 2
    /\ Counter(sketch.table[7], 1) = 15
    /\ Counter(sketch.table[7], 2) = 2

\* C15: reset leaves in every counter of the table the floor half of what it
\* held, no bit of the counter above it coming in, and frequency of every
\* item after reset is the floor half of frequency before.
C15_ResetHalvesEveryCounter ==
    [][ (op' = "reset" /\ ~panicked') =>
            /\ DOMAIN sketch'.table = DOMAIN sketch.table
            /\ \A k \in DOMAIN sketch.table : \A j \in 0..15 :
                   Counter(sketch'.table[k], j) = Counter(sketch.table[k], j) \div 2
            /\ \A e \in Items :
                   frequency(sketch', e) = frequency(sketch, e) \div 2 ]_vars

\* reset has halved the 7 of item 1 to 3 and the 3 of item 3, in the
\* counters just above, to 1
C15_Witness ==
    /\ op = "reset"
    /\ ~panicked
    /\ Counter(sketch.table[1], 13) = 3
    /\ Counter(sketch.table[1], 14) = 1
    /\ frequency(sketch, 1) = 3
    /\ frequency(sketch, 3) = 1
    /\ sketch.size = U64(4)

\* C17: after new and after every increment or reset call that has
\* returned, size < sample_size.
C17_SizeBelowSampleSize ==
    ~panicked => Less(sketch.size, sketch.sample_size)

\* after an aging pass, an increment has brought size to sample_size - 1
\* again
C17_Witness ==
    /\ op = "increment"
    /\ ~panicked
    /\ aged
    /\ ~ran_reset
    /\ Add64(sketch.size, Small64(1)) = sketch.sample_size

\* ------------------------------------------------------------------------
\* Indices and the population count
\* ------------------------------------------------------------------------

\* the number of one-bits of a word
PopCount(x) ==
    Cardinality({b \in 0..(16 * Len(x) - 1) : BitOf(x[(b \div 16) + 1], b % 16) = 1})

\* C13: for every item and every table_len new produces, the four word
\* indices block + offset + 2i that increment computes and those that
\* frequency computes are the same, pairwise distinct, within one block
\* [block, block + 7] with block a multiple of 8, and below table_len; the
\* counter indices are the same and within 0..15.
C13_BlockConfinement ==
    (call.fn = "index" /\ call.done) =>
        LET inc == call.out.increment
            frq == call.out.frequency
            block == inc[5] - (inc[5] % 8)
        IN  /\ frq = inc
            /\ Cardinality({inc[i] : i \in 5..8}) = 4
            /\ block >= 0
            /\ \A i \in 5..8 :
                   /\ inc[i] - block - 2 * (i - 5) \in {0, 1}
                   /\ inc[i] <= block + 7
                   /\ Less(U64(inc[i]), call.out.table_len)
            /\ \A i \in 1..4 : inc[i] \in 0..15

\* the indices of item 6 in the 64 words of new(64): its block is the last
\* one and its last word the last of the table
C13_Witness ==
    /\ call.fn = "index"
    /\ call.done
    /\ call.arg = [maximum_size |-> U64(64), item |-> 6]
    /\ call.out.table_len = U64(64)
    /\ call.out.increment = <<4, 15, 15, 9, 56, 58, 61, 63>>
    /\ call.out.frequency = <<4, 15, 15, 9, 56, 58, 61, 63>>

\* C19: bit_count(i) is the number of one-bits of i, for every u64 i.
C19_BitCountIsPopulationCount ==
    (call.fn = "bit_count" /\ call.done) => call.out = PopCount(call.arg)

\* ------------------------------------------------------------------------
\* A stream of distinct items
\* ------------------------------------------------------------------------

\* the sketches a stream is fed to: new(8), with a table of 8 words, and
\* new(64), with a table of 64 words
StreamSizes == {8, 64}

InitStream ==
    /\ \E m \in StreamSizes :
          \E n \in {new(U64(m), TRUE)} :
              /\ sketch = [n.sketch EXCEPT !.table = Words(@)]
              /\ panicked = n.panic
    /\ unchecked = FALSE
    /\ incs = [e \in StreamItems |-> 0]
    /\ aged = FALSE
    /\ op = "new"
    /\ ran_reset = FALSE
    /\ read = NoRead
    /\ call = NoCall

\* increment(e) for the next item e of the stream: the items come in their
\* order, each once, until an aging pass has run
StreamIncrement(e) ==
    /\ ~panicked
    /\ ~aged
    /\ \A x \in StreamItems : incs[x] = 1 <=> x < e
    /\ \E r \in Outcomes(increment(sketch, e, FALSE), increment(sketch, e, TRUE)) :
           /\ sketch' = r.sketch
           /\ panicked' = r.panic
           /\ unchecked' = (unchecked \/ (r.overflow /\ ~r.panic))
           /\ ran_reset' = r.aged
           /\ aged' = r.aged
           /\ incs' = IF r.aged THEN [x \in StreamItems |-> 0]
                      ELSE [incs EXCEPT ![e] = 1]
    /\ op' = "increment"
    /\ read' = NoRead
    /\ UNCHANGED call

\* the stream, with reset calls at any point
NextStream ==
    \/ \E e \in StreamItems : StreamIncrement(e)
    \/ Reset

SpecStream == InitStream /\ [][NextStream]_vars

\* the number of odd counters of a word, and of a table
OddIn(word) == Cardinality({j \in 0..15 : Counter(word, j) % 2 = 1})
OddCounters(table) ==
    Cardinality({p \in (DOMAIN table) \X (0..15) : Counter(table[p[1]], p[2]) % 2 = 1})

\* C16: reset leaves size = (size - (T >> 2)) >> 1 for the number T of
\* counters of the table that were odd, each word adding its number of odd
\* counters to the count.
C16_ResetSizeFromOddCounters ==
    [][ (op' = "reset" /\ ~panicked') =>
            /\ \A k \in DOMAIN sketch.table :
                   bit_count(And64(sketch.table[k], Mask1)) = OddIn(sketch.table[k])
            /\ sketch'.size =
                   Shr64(Sub64(sketch.size, Small64(OddCounters(sketch.table) \div 4)), 1)
      ]_vars

\* C18: the sum reset accumulates in its u8 count stays within 255, for
\* tables of 64 words as for smaller ones: no reset call, direct or from
\* increment, overflows, be it to wrap or to panic.
C18_CountFitsU8 ==
    /\ ~panicked
    /\ ~unchecked

====
